---- MODULE Spec2Model ----
(***************************************************************************)
(* State-machine model of the egui date picker of src/src/lib.rs:          *)
(* the calendar grid builder month_data, the cursor DatePickerPopupState   *)
(* with its navigation handlers in DatePickerPopup::draw, and the          *)
(* per-frame behaviour of DatePickerButton::ui.                            *)
(*                                                                         *)
(* One step of Spec is one frame of the immediate-mode GUI: the whole run  *)
(* of DatePickerButton::ui (and, when the popup is shown, of               *)
(* DatePickerPopup::draw) with the input of that frame.  egui reports at   *)
(* most one clicked widget per frame, so a frame carries at most one click *)
(* and, independently, an Escape key press.                                *)
(*                                                                         *)
(* SpecFn applies the pure functions of the file, month_data and           *)
(* last_day_of_month, to inputs drawn from a bounded set of years.         *)
(***************************************************************************)
EXTENDS Integers, Sequences, FiniteSets, TLC

VARIABLES
    selection,       \* the caller-owned NaiveDate behind DatePickerButton.selection
    picker_visible,  \* persisted DatePickerButtonState.picker_visible
    popup_state,     \* persisted DatePickerPopupState [year, month, day, setup]
    panicked,        \* TRUE once an expect/unwrap/panic! was hit (the process aborted)
    panic_site,      \* where it was hit: NoPanic or the name of the place
    ev,              \* the input of the last frame [op, arg, esc, out] (history)
    changed,         \* whether the last frame marked the button response changed
    probe,           \* SpecFn only: [fn, arg, ret], one pure function applied to arg
    app              \* SpecApp only: two date picker buttons in one Ui and egui's
                     \* persisted data [id_salt, selection, button_states, popup_states]

vars == <<selection, picker_visible, popup_state, panicked, panic_site, ev, changed,
          probe, app>>

-----------------------------------------------------------------------------
(* chrono::NaiveDate, as far as lib.rs uses it.  A date is a record        *)
(* [year, month, day]; Option<T> is <<>> (None) or <<x>> (Some(x)).        *)

\* chrono 0.4: NaiveDate::MAX is +262142-12-31 and NaiveDate::MIN is -262143-01-01.
MAX_YEAR == 262142
MIN_YEAR == -262143

None == <<>>
Some(x) == <<x>>

Mon == 0
Sun == 6

Min(a, b) == IF a <= b THEN a ELSE b

\* let x = e; Body(x): e is evaluated once, before Body.
Let(e, Body(_)) == CHOOSE v \in {Body(x) : x \in {e}} : TRUE

IsLeapYear(y) == (y % 4 = 0 /\ y % 100 # 0) \/ y % 400 = 0

DaysInMonth(y, m) ==
    CASE m \in {1, 3, 5, 7, 8, 10, 12} -> 31
      [] m \in {4, 6, 9, 11} -> 30
      [] m = 2 -> IF IsLeapYear(y) THEN 29 ELSE 28
      [] OTHER -> 0

\* NaiveDate::from_ymd_opt: None when the triple is no date of the
\* proleptic Gregorian calendar or its year is not representable.
from_ymd_opt(y, m, d) ==
    IF /\ y >= MIN_YEAR /\ y <= MAX_YEAR
       /\ m >= 1 /\ m <= 12
       /\ d >= 1 /\ d <= DaysInMonth(y, m)
    THEN Some([year |-> y, month |-> m, day |-> d])
    ELSE None

\* Datelike::with_day
with_day(date, d) == from_ymd_opt(date.year, date.month, d)

\* Days since 1970-01-01 (a Thursday) of a proleptic Gregorian date.
DayNumber(date) ==
    Let(date, LAMBDA d :
    Let(IF d.month <= 2 THEN d.year - 1 ELSE d.year, LAMBDA y :
    Let(y \div 400, LAMBDA era :
    Let(y - era * 400, LAMBDA yoe :
    Let(IF d.month > 2 THEN d.month - 3 ELSE d.month + 9, LAMBDA mp :
    Let((153 * mp + 2) \div 5 + d.day - 1, LAMBDA doy :
    Let(yoe * 365 + yoe \div 4 - yoe \div 100 + doy, LAMBDA doe :
        era * 146097 + doe - 719468)))))))

\* Datelike::weekday, 0 = Monday .. 6 = Sunday
weekday(date) == (DayNumber(date) + 3) % 7

\* The date that lies n days after 1970-01-01: the inverse of DayNumber.
DateOfDayNumber(n) ==
    Let(n + 719468, LAMBDA z :
    Let(z \div 146097, LAMBDA era :
    Let(z - era * 146097, LAMBDA doe :
    Let((doe - doe \div 1460 + doe \div 36524 - doe \div 146096) \div 365, LAMBDA yoe :
    Let(doe - (365 * yoe + yoe \div 4 - yoe \div 100), LAMBDA doy :
    Let((5 * doy + 2) \div 153, LAMBDA mp :
    Let(IF mp < 10 THEN mp + 3 ELSE mp - 9, LAMBDA m :
        [year  |-> yoe + era * 400 + (IF m <= 2 THEN 1 ELSE 0),
         month |-> m,
         day   |-> doy - (153 * mp + 2) \div 5 + 1])))))))

NaiveDate_MIN == [year |-> MIN_YEAR, month |-> 1, day |-> 1]
NaiveDate_MAX == [year |-> MAX_YEAR, month |-> 12, day |-> 31]

\* NaiveDate::checked_add_signed(Duration::days(days)), and with days < 0
\* NaiveDate::checked_sub_signed(Duration::days(-days)): None when the
\* result is not representable.
checked_add_signed(date, days) ==
    Let(DayNumber(date) + days, LAMBDA n :
        IF n < DayNumber(NaiveDate_MIN) \/ n > DayNumber(NaiveDate_MAX)
        THEN None
        ELSE Some(DateOfDayNumber(n)))

\* PartialOrd of NaiveDate: start < first
date_lt(a, b) ==
    \/ a.year < b.year
    \/ a.year = b.year /\ a.month < b.month
    \/ a.year = b.year /\ a.month = b.month /\ a.day < b.day

\* The number of ISO-8601 weeks of a year: 53 when January 1 is a Thursday,
\* or a Wednesday in a leap year.
IsoWeeksInYear(y) ==
    Let(weekday([year |-> y, month |-> 1, day |-> 1]), LAMBDA jan1 :
        IF jan1 = 3 \/ (jan1 = 2 /\ IsLeapYear(y)) THEN 53 ELSE 52)

\* The week of the year without the weeks that belong to a neighbour year.
iso_week_in_year(date) ==
    Let(DayNumber(date)
          - DayNumber([year |-> date.year, month |-> 1, day |-> 1]) + 1, LAMBDA ordinal :
        (ordinal - (weekday(date) + 1) + 10) \div 7)

\* start.iso_week().week() as u8
iso_week(date) ==
    Let(DayNumber(date)
          - DayNumber([year |-> date.year, month |-> 1, day |-> 1]) + 1, LAMBDA ordinal :
    Let((ordinal - (weekday(date) + 1) + 10) \div 7, LAMBDA w :
        IF w < 1 THEN IsoWeeksInYear(date.year - 1)
        ELSE IF w > IsoWeeksInYear(date.year) THEN 1
        ELSE w))

-----------------------------------------------------------------------------
(* fn month_data(year, month) -> Vec<Week>                                 *)
(* The result is [panic, done, weeks, back, fwd]: panic is TRUE when an    *)
(* expect or unwrap of the function fails (no value is returned then),     *)
(* done is TRUE when both loops ended, weeks is the vector returned, back  *)
(* and fwd count the completed iterations of the first and of the second   *)
(* loop.  A loop is followed for at most MaxLoopSteps iterations;          *)
(* done = FALSE says that it was still running then.                       *)
(*                                                                         *)
(* Both loops move `start` by one day per iteration, so the value of       *)
(* `start` at the head of iteration i is the loop's first value moved by i *)
(* days, or None when one of the unwraps on the way failed.  A loop ends   *)
(* at the first i whose `start` fails the loop condition, and panics when  *)
(* an unwrap fails before that.                                            *)

MaxLoopSteps == 48

Least(S) == CHOOSE x \in S : \A y \in S : x <= y

\* `start` at the head of iteration j of
\*   while start.weekday() != Weekday::Mon {
\*       start = start.checked_sub_signed(Duration::days(1)).unwrap(); }
back_walk(first, j) == checked_add_signed(first, -j)

\* The first loop left out: the grid begins at the 1st.
no_back_walk(first) == [panic |-> FALSE, done |-> TRUE, start |-> first, n |-> 0]

\* The first loop: [panic, done, start, n].
back_to_monday(first) ==
    Let({j \in 0..MaxLoopSteps :
            Let(back_walk(first, j), LAMBDA start :
                start = None \/ weekday(start[1]) = Mon)}, LAMBDA stops :
        IF stops = {}
        THEN [panic |-> FALSE, done |-> FALSE, start |-> first, n |-> MaxLoopSteps]
        ELSE Let(Least(stops), LAMBDA j :
             Let(back_walk(first, j), LAMBDA start :
                 IF start = None
                 THEN [panic |-> TRUE, done |-> FALSE, start |-> first, n |-> j - 1]
                 ELSE [panic |-> FALSE, done |-> TRUE, start |-> start[1], n |-> j])))

\* `start` at the head of iteration i of the second loop, whose body ends with
\*   start = start.checked_add_signed(Duration::days(1)).unwrap();
fill_walk(start, i) == checked_add_signed(start, i)

\* The loop condition without its last disjunct: the loop ends with the month.
fill_condition_in_month(start, first) ==
    \/ date_lt(start, first)
    \/ start.month = first.month

\* The loop condition with Sunday for Monday: the loop ends before the Sunday
\* after the month is pushed.
fill_condition_to_sunday(start, first) ==
    \/ date_lt(start, first)
    \/ start.month = first.month
    \/ weekday(start) # Sun

\* while start < first || start.month() == first.month()
\*       || start.weekday() != Weekday::Mon
fill_condition(start, first) ==
    \/ date_lt(start, first)
    \/ start.month = first.month
    \/ weekday(start) # Mon

\* The second loop: [panic, done, weeks, n].  Iteration i pushes its `start` to
\* `week`; on a Sunday it pushes a Week made of `week` to `weeks` and leaves
\* `week` empty (std::mem::take).  What `week` holds when the loop ends is
\* not returned.
fill_weeks(start, first) ==
    Let({i \in 0..MaxLoopSteps :
            Let(fill_walk(start, i), LAMBDA s :
                s = None \/ ~fill_condition(s[1], first))}, LAMBDA stops :
        IF stops = {}
        THEN [panic |-> FALSE, done |-> FALSE, weeks |-> <<>>, n |-> MaxLoopSteps]
        ELSE Let(Least(stops), LAMBDA n :
             IF fill_walk(start, n) = None
             THEN [panic |-> TRUE, done |-> FALSE, weeks |-> <<>>, n |-> n - 1]
             ELSE Let([i \in 0..(n - 1) |-> fill_walk(start, i)[1]], LAMBDA pushed :
                  Let({i \in 0..(n - 1) : weekday(pushed[i]) = Sun}, LAMBDA sundays :
                      LET \* the iteration that closes the k-th week
                          close(k) == CHOOSE i \in sundays :
                                          Cardinality({x \in sundays : x < i}) = k - 1
                          \* the first iteration after the week before was closed
                          open(k)  == IF k = 1 THEN 0 ELSE close(k - 1) + 1
                      IN [panic |-> FALSE, done |-> TRUE, n |-> n,
                          weeks |-> [k \in 1..Cardinality(sundays) |->
                                       Let(close(k), LAMBDA c :
                                       Let(open(k), LAMBDA o :
                                           [number |-> iso_week(pushed[c]),
                                            days   |-> [d \in 1..(c - o + 1) |->
                                                          pushed[o + d - 1]]]))]]))))

MonthPanic == [panic |-> TRUE, done |-> FALSE, weeks |-> <<>>, back |-> 0, fwd |-> 0]

month_data(year, month) ==
    Let(from_ymd_opt(year, month, 1), LAMBDA first :
        IF first = None THEN MonthPanic
        ELSE Let(back_to_monday(first[1]), LAMBDA b :
                 IF b.panic \/ ~b.done
                 THEN [MonthPanic EXCEPT !.panic = b.panic, !.back = b.n]
                 ELSE Let(fill_weeks(b.start, first[1]), LAMBDA f :
                          [panic |-> f.panic, done |-> f.done, weeks |-> f.weeks,
                           back |-> b.n, fwd |-> f.n])))

-----------------------------------------------------------------------------
(* struct DatePickerPopupState and fn last_day_of_month                    *)

\* #[derive(Default)]: what get_persisted(..).unwrap_or_default() yields
\* before the popup was ever drawn.
DefaultPopupState == [year |-> 0, month |-> 0, day |-> 0, setup |-> FALSE]

\* last_day_of_month without the probe of day 29.
last_day_of_month_no_leap(ps) ==
    LET date == from_ymd_opt(ps.year, ps.month, 1)
    IN IF date = None THEN None
       ELSE Some(IF with_day(date[1], 31) # None THEN 31
                 ELSE IF with_day(date[1], 30) # None THEN 30
                 ELSE 28)

\* Some(n), or None when the expect on from_ymd_opt(year, month, 1) fails.
last_day_of_month(ps) ==
    LET date == from_ymd_opt(ps.year, ps.month, 1)
    IN IF date = None THEN None
       ELSE Some(IF with_day(date[1], 31) # None THEN 31
                 ELSE IF with_day(date[1], 30) # None THEN 30
                 ELSE IF with_day(date[1], 29) # None THEN 29
                 ELSE 28)

\* fn month_name: None stands for the panic! arm.
month_name(i) ==
    IF i >= 1 /\ i <= 12
    THEN Some(<<"January", "February", "March", "April", "May", "June", "July",
                "August", "September", "October", "November", "December">>[i])
    ELSE None

-----------------------------------------------------------------------------
(* The bodies of the click handlers of DatePickerPopup::draw.  Each maps   *)
(* the local popup_state to [panic, ps]: ps is the state the handler       *)
(* persists, panic is TRUE when last_day_of_month panicked before that.    *)
(* year is an i32 and month, day are u32; the handlers run on a cursor     *)
(* that month_data accepted in the same frame, so month and day are >= 1   *)
(* and the year is far from the ends of i32.                               *)

Ok(ps) == [panic |-> FALSE, ps |-> ps]
Panicked(ps) == [panic |-> TRUE, ps |-> ps]

\* clamp_day without its effect.
clamp_day_skipped(ps) == Ok(ps)

\* popup_state.day = popup_state.day.min(popup_state.last_day_of_month());
clamp_day(ps) ==
    LET last == last_day_of_month(ps)
    IN IF last = None THEN Panicked(ps)
       ELSE Ok([ps EXCEPT !.day = Min(ps.day, last[1])])

\* "<<<", hover text "subtract one year"
subtract_one_year(ps) == clamp_day([ps EXCEPT !.year = ps.year - 1])

\* "<<", hover text "subtract one month"
subtract_one_month(ps) ==
    LET m1 == ps.month - 1
    IN clamp_day(IF m1 = 0
                 THEN [ps EXCEPT !.month = 12, !.year = ps.year - 1]
                 ELSE [ps EXCEPT !.month = m1])

\* subtract_one_day that stops at the first day of the month.
subtract_one_day_no_borrow(ps) ==
    Ok([ps EXCEPT !.day = IF ps.day = 1 THEN 1 ELSE ps.day - 1])

\* "<", hover text "subtract one day"
subtract_one_day(ps) ==
    LET d1 == ps.day - 1
    IN IF d1 = 0
       THEN LET m1   == ps.month - 1
                a    == IF m1 = 0
                        THEN [ps EXCEPT !.day = d1, !.year = ps.year - 1, !.month = 12]
                        ELSE [ps EXCEPT !.day = d1, !.month = m1]
                last == last_day_of_month(a)
            IN IF last = None THEN Panicked(a)
               ELSE Ok([a EXCEPT !.day = last[1]])
       ELSE Ok([ps EXCEPT !.day = d1])

\* add_one_day with >= for > in the comparison with the last day.
add_one_day_early(ps) ==
    LET a    == [ps EXCEPT !.day = ps.day + 1]
        last == last_day_of_month(a)
    IN IF last = None THEN Panicked(a)
       ELSE IF a.day >= last[1]
            THEN IF a.month + 1 > 12
                 THEN Ok([a EXCEPT !.day = 1, !.month = 1, !.year = a.year + 1])
                 ELSE Ok([a EXCEPT !.day = 1, !.month = a.month + 1])
            ELSE Ok(a)

\* ">", hover text "add one day"
add_one_day(ps) ==
    LET a    == [ps EXCEPT !.day = ps.day + 1]
        last == last_day_of_month(a)
    IN IF last = None THEN Panicked(a)
       ELSE IF a.day > last[1]
            THEN IF a.month + 1 > 12
                 THEN Ok([a EXCEPT !.day = 1, !.month = 1, !.year = a.year + 1])
                 ELSE Ok([a EXCEPT !.day = 1, !.month = a.month + 1])
            ELSE Ok(a)

\* add_one_month without the clamp of the day.
add_one_month_unclamped(ps) ==
    LET m1 == ps.month + 1
    IN Ok(IF m1 > 12
          THEN [ps EXCEPT !.month = 1, !.year = ps.year + 1]
          ELSE [ps EXCEPT !.month = m1])

\* add_one_month without the carry into the year.
add_one_month_no_carry(ps) ==
    LET m1 == ps.month + 1
    IN clamp_day(IF m1 > 12 THEN [ps EXCEPT !.month = 1] ELSE [ps EXCEPT !.month = m1])

\* ">>", hover text "add one month"
add_one_month(ps) ==
    LET m1 == ps.month + 1
    IN clamp_day(IF m1 > 12
                 THEN [ps EXCEPT !.month = 1, !.year = ps.year + 1]
                 ELSE [ps EXCEPT !.month = m1])

\* add_one_year without the clamp of the day.
add_one_year_unclamped(ps) == Ok([ps EXCEPT !.year = ps.year + 1])

\* ">>>", hover text "add one year"
add_one_year(ps) == clamp_day([ps EXCEPT !.year = ps.year + 1])

\* select_year without the clamp of the day.
select_year_unclamped(ps, year) == Ok([ps EXCEPT !.year = year])

\* ComboBox "date_picker_year": selectable_value(&mut popup_state.year, year, ..)
\* reports changed() only when the clicked value differs from the current one.
select_year(ps, year) ==
    IF ps.year # year THEN clamp_day([ps EXCEPT !.year = year]) ELSE Ok(ps)

\* ComboBox "date_picker_month"
select_month(ps, month) ==
    IF ps.month # month THEN clamp_day([ps EXCEPT !.month = month]) ELSE Ok(ps)

\* The entries of ComboBox "date_picker_day":
\* for day in 1..=popup_state.last_day_of_month(); none when that panics.
day_entries(ps) ==
    Let(last_day_of_month(ps), LAMBDA last : IF last = None THEN {} ELSE 1..last[1])

\* ComboBox "date_picker_day": no clamp, the offered days are 1..=last_day_of_month()
select_day(ps, day) == Ok([ps EXCEPT !.day = day])

\* A cell click that sets the day only.
click_day_in_month(ps, day) == Ok([ps EXCEPT !.day = day.day])

\* A click on a cell of the calendar table.
click_day(ps, day) ==
    Ok([ps EXCEPT !.year = day.year, !.month = day.month, !.day = day.day])

-----------------------------------------------------------------------------
(* The part of the input space that is explored.  The cursor stays in a    *)
(* window of years, months and days: the first and last days of the months *)
(* around the turn of the year, in the years around a leap year and in the *)
(* first and the last representable year.                                  *)

TableYears == <<MIN_YEAR, 2023, 2024, 2025, MAX_YEAR>>
EdgeYears == {MIN_YEAR, MAX_YEAR}
ModelYears == {TableYears[i] : i \in DOMAIN TableYears} \ EdgeYears
ModelMonths == {12, 1, 2, 3}
ModelDays == {1, 28, 29, 30, 31}

InDayWindow(day) == day \in ModelDays

InWindow(c) ==
    /\ c.year \in ModelYears \cup EdgeYears
    /\ c.month \in ModelMonths
    /\ InDayWindow(c.day)

\* month_data on the years of the window, computed once.
MonthDataTable ==
    [i \in DOMAIN TableYears |->
        [month \in 1..12 |-> month_data(TableYears[i], month)]]

\* month_data(year, month), read from the table where the table has it.
month_data_of(year, month) ==
    IF year \in ModelYears \cup EdgeYears /\ month \in 1..12
    THEN MonthDataTable[CHOOSE i \in DOMAIN TableYears : TableYears[i] = year][month]
    ELSE month_data(year, month)

\* A frame's click is explored when it stops the process or leaves the cursor
\* in the window, in the same group of years.
Explored ==
    \/ panicked'
    \/ /\ InWindow(popup_state')
       /\ (popup_state.year \in EdgeYears) = (popup_state'.year \in EdgeYears)

-----------------------------------------------------------------------------
(* DatePickerButton::new: the defaults of the builder flags.               *)

combo_boxes == TRUE
arrows == TRUE
calendar == TRUE

\* let today = chrono::offset::Utc::now().date_naive(); only its year is
\* used by the handlers (the range of the year combo box).
today == [year |-> 2024, month |-> 6, day |-> 15]

\* for year in today.year() - 100..today.year() + 10
ComboYears == (today.year - 100)..(today.year + 9)

-----------------------------------------------------------------------------
(* A click of one frame: [op, arg].  op names the clicked widget by its    *)
(* label ("<<<" .. ">>>", "Cancel", "Save"), "button" is the date button,  *)
(* "year", "month", "day" an entry of a combo box (arg: its value), "cell" *)
(* a day of the calendar table (arg: its date), "elsewhere" a click on     *)
(* nothing of the widget and "idle" no click.                              *)

Click(op, arg) == [op |-> op, arg |-> arg]

\* The handler that a click on a widget of the popup runs.
handle_click(ps, click) ==
    CASE click.op = "<<<" -> subtract_one_year(ps)
      [] click.op = "<<" -> subtract_one_month(ps)
      [] click.op = "<" -> subtract_one_day(ps)
      [] click.op = ">" -> add_one_day(ps)
      [] click.op = ">>" -> add_one_month(ps)
      [] click.op = ">>>" -> add_one_year(ps)
      [] click.op = "year" -> select_year(ps, click.arg)
      [] click.op = "month" -> select_month(ps, click.arg)
      [] click.op = "day" -> select_day(ps, click.arg)
      [] click.op = "cell" -> click_day(ps, click.arg)
      [] OTHER -> Ok(ps)

\* if !popup_state.setup { .. }: the cursor is taken from the selection.
setup_cursor(ps, sel) ==
    IF ~ps.setup
    THEN [year |-> sel.year, month |-> sel.month, day |-> sel.day, setup |-> TRUE]
    ELSE ps

\* if ui.button("Cancel").clicked()
cancel_clicked(click) == click.op = "Cancel"

\* Cancel taken for Save as well.
save_or_cancel_clicked(click) == click.op \in {"Save", "Cancel"}

\* if ui.button("Save").clicked()
save_clicked(click) == click.op = "Save"

\* The first day of the cursor's month saved instead of the cursor's day.
save_date_first_day(ps) == from_ymd_opt(ps.year, ps.month, 1)

\* NaiveDate::from_ymd_opt(popup_state.year, popup_state.month, popup_state.day)
save_date(ps) == from_ymd_opt(ps.year, ps.month, ps.day)

\* No panic; the places of a panic are "month_data", "month_name",
\* "last_day_of_month" and "Save".
NoPanic == "none"

\* A close that leaves the cursor set up.
close_popup_keeps_setup(ps) == ps

\* if close { popup_state.setup = false; .. insert_persisted(id, popup_state) .. }
close_popup(ps) == [ps EXCEPT !.setup = FALSE]

\* A draw that reports every closing frame.
draw_result_close(saved, close) == close

\* The value draw returns: saved && close
draw_result(saved, close) == saved /\ close

\* DatePickerPopup::draw: [panic, ps, selection, close, saved] where panic is
\* NoPanic or the place of the panic, ps is the persisted popup state and
\* selection the caller's date when draw returns (or panics), and saved is the
\* value returned.
draw(ps0, sel, click) ==
    LET ps1 == setup_cursor(ps0, sel)
        stop(site) == [panic |-> site, ps |-> ps1, selection |-> sel,
                       close |-> FALSE, saved |-> FALSE]
        weeks == month_data_of(ps1.year, ps1.month)
    IN IF weeks.panic \/ ~weeks.done THEN stop("month_data")
       ELSE IF combo_boxes /\ month_name(ps1.month) = None THEN stop("month_name")
       ELSE Let(handle_click(ps1, click), LAMBDA r :
               IF r.panic THEN stop("last_day_of_month")
               ELSE IF save_clicked(click)
               THEN Let(save_date(r.ps), LAMBDA date :
                        IF date = None THEN stop("Save")
                        ELSE [panic |-> NoPanic, ps |-> close_popup(r.ps),
                              selection |-> date[1], close |-> TRUE,
                              saved |-> draw_result(TRUE, TRUE)])
               ELSE IF cancel_clicked(click)
               THEN [panic |-> NoPanic, ps |-> close_popup(r.ps),
                     selection |-> sel, close |-> TRUE,
                     saved |-> draw_result(FALSE, TRUE)]
               ELSE [panic |-> NoPanic, ps |-> r.ps, selection |-> sel,
                     close |-> FALSE, saved |-> draw_result(FALSE, FALSE)])

\* A close test without the guard on the button's click.
closes_popup_unguarded(clicked, esc, out) == esc \/ out

\* if !button_response.clicked()
\*     && (ui.input(|i| i.key_pressed(Key::Escape)) || area_response.clicked_elsewhere())
closes_popup(clicked, esc, out) == ~clicked /\ (esc \/ out)

\* DatePickerButton::ui, one frame.  esc: Key::Escape was pressed this frame;
\* out: area_response.clicked_elsewhere() of this frame.
\* The frame as a function of the persisted states and the caller's date:
\* [panic, picker_visible, popup_state, selection, changed].
DatePickerButton_ui(visible0, ps0, sel, click, esc, out) ==
    LET clicked == click.op = "button"
        visible == visible0 \/ clicked
    IN IF ~visible
       THEN [panic |-> NoPanic, picker_visible |-> FALSE, popup_state |-> ps0,
             selection |-> sel, changed |-> FALSE]
       ELSE Let(draw(ps0, sel, click), LAMBDA d :
               [panic |-> d.panic,
                picker_visible |->
                    IF d.panic # NoPanic THEN visible
                    ELSE IF closes_popup(clicked, esc, out) THEN FALSE
                    ELSE IF d.close THEN FALSE
                    ELSE visible,
                popup_state |-> d.ps,
                selection |-> d.selection,
                changed |-> d.saved])

\* One frame of the one date picker button of Spec.
ui(click, esc, out) ==
    /\ ~panicked
    /\ ev' = [op |-> click.op, arg |-> click.arg, esc |-> esc, out |-> out]
    /\ UNCHANGED <<probe, app>>
    /\ \E r \in {DatePickerButton_ui(picker_visible, popup_state, selection,
                                      click, esc, out)} :
          /\ popup_state' = r.popup_state
          /\ selection' = r.selection
          /\ panicked' = (r.panic # NoPanic)
          /\ panic_site' = r.panic
          /\ changed' = r.changed
          /\ picker_visible' = r.picker_visible

InitSelections ==
    { [year |-> 2024, month |-> 2, day |-> 29],
      [year |-> 2023, month |-> 12, day |-> 31],
      [year |-> 2025, month |-> 1, day |-> 1],
      [year |-> MAX_YEAR, month |-> 3, day |-> 31],
      [year |-> MIN_YEAR, month |-> 2, day |-> 1] }

\* No application of two buttons is modelled (Spec, SpecFn).
NoApp == <<>>

NoProbe == [fn |-> "none", arg |-> DefaultPopupState, ret |-> None]

Init ==
    /\ selection \in InitSelections
    /\ picker_visible = FALSE
    /\ popup_state = DefaultPopupState
    /\ panicked = FALSE
    /\ panic_site = NoPanic
    /\ ev = [op |-> "init", arg |-> 0, esc |-> FALSE, out |-> FALSE]
    /\ changed = FALSE
    /\ probe = NoProbe
    /\ app = NoApp

-----------------------------------------------------------------------------
(* The frames, by their input.                                             *)

\* A frame without a click; Escape may be pressed.
IdleFrame == \E esc \in BOOLEAN : ui(Click("idle", 0), esc, FALSE)

\* A click on the date button.  The click lies outside the popup's area.
ClickButton == \E esc \in BOOLEAN : ui(Click("button", 0), esc, TRUE)

\* A click on nothing of the widget, outside the popup's area.
ClickElsewhere == \E esc \in BOOLEAN : ui(Click("elsewhere", 0), esc, TRUE)

\* The widgets of the popup can be clicked when the popup was shown.
\* A click on one of them lies inside the popup's area.
PopupClick(click, esc, out) ==
    /\ picker_visible
    /\ ui(click, esc, out)
    /\ Explored

ArrowSubYear == arrows /\ \E esc \in BOOLEAN : PopupClick(Click("<<<", 0), esc, FALSE)
ArrowSubMonth == arrows /\ \E esc \in BOOLEAN : PopupClick(Click("<<", 0), esc, FALSE)
ArrowSubDay == arrows /\ \E esc \in BOOLEAN : PopupClick(Click("<", 0), esc, FALSE)
ArrowAddDay == arrows /\ \E esc \in BOOLEAN : PopupClick(Click(">", 0), esc, FALSE)
ArrowAddMonth == arrows /\ \E esc \in BOOLEAN : PopupClick(Click(">>", 0), esc, FALSE)
ArrowAddYear == arrows /\ \E esc \in BOOLEAN : PopupClick(Click(">>>", 0), esc, FALSE)

\* The entries of a combo box are drawn in a popup of their own, which may
\* reach beyond the area of the date picker popup: whether the click on an
\* entry counts as clicked_elsewhere() depends on the layout.
ComboYear ==
    combo_boxes /\ \E year \in ComboYears \cap ModelYears, esc \in BOOLEAN, out \in BOOLEAN :
        PopupClick(Click("year", year), esc, out)

ComboMonth ==
    combo_boxes /\ \E month \in (1..12) \cap ModelMonths, esc \in BOOLEAN, out \in BOOLEAN :
        PopupClick(Click("month", month), esc, out)

\* for day in 1..=popup_state.last_day_of_month()
ComboDay ==
    /\ combo_boxes
    /\ \E day \in {x \in day_entries(popup_state) : InDayWindow(x)},
          esc \in BOOLEAN, out \in BOOLEAN :
             PopupClick(Click("day", day), esc, out)

\* for week in weeks { for day in week.days { .. } }
ClickCell ==
    /\ calendar
    /\ LET weeks == month_data_of(popup_state.year, popup_state.month).weeks
       IN \E w \in DOMAIN weeks : \E i \in DOMAIN weeks[w].days : \E esc \in BOOLEAN :
             /\ InWindow(weeks[w].days[i])
             /\ PopupClick(Click("cell", weeks[w].days[i]), esc, FALSE)

ClickCancel == \E esc \in BOOLEAN : PopupClick(Click("Cancel", 0), esc, FALSE)
ClickSave == \E esc \in BOOLEAN : PopupClick(Click("Save", 0), esc, FALSE)

Next ==
    \/ IdleFrame
    \/ ClickButton
    \/ ClickElsewhere
    \/ ArrowSubYear
    \/ ArrowSubMonth
    \/ ArrowSubDay
    \/ ArrowAddDay
    \/ ArrowAddMonth
    \/ ArrowAddYear
    \/ ComboYear
    \/ ComboMonth
    \/ ComboDay
    \/ ClickCell
    \/ ClickCancel
    \/ ClickSave

Spec == Init /\ [][Next]_vars

-----------------------------------------------------------------------------
(* SpecFn: month_data and last_day_of_month applied to one input.  The     *)
(* years lie around a leap year, around the century years 1900, 2000 and   *)
(* 2100, and around both ends of the years chrono can represent.           *)

YearSpan == 2

FnYears ==
    {c + k : c \in {1900, 2000, 2024, 2100}, k \in (-YearSpan)..YearSpan}
    \cup {MIN_YEAR + k : k \in -1..YearSpan}
    \cup {MAX_YEAR - k : k \in -1..YearSpan}

FnCursor(year, month) == [year |-> year, month |-> month, day |-> 1, setup |-> TRUE]

InitFn == Init /\ selection = [year |-> 2024, month |-> 2, day |-> 29]

Frame == UNCHANGED <<selection, picker_visible, popup_state, panicked, panic_site,
                     ev, changed, app>>

ApplyMonthData ==
    /\ probe = NoProbe
    /\ \E year \in FnYears, month \in 1..12 :
          probe' = [fn |-> "month_data", arg |-> FnCursor(year, month),
                    ret |-> month_data(year, month)]
    /\ Frame

ApplyLastDayOfMonth ==
    /\ probe = NoProbe
    /\ \E year \in FnYears, month \in 1..12 :
          probe' = [fn |-> "last_day_of_month", arg |-> FnCursor(year, month),
                    ret |-> last_day_of_month(FnCursor(year, month))]
    /\ Frame

\* One frame with the popup shown, the cursor ps and a click on the widget
\* `op`: [panic, ps], the cursor persisted when the frame ends.
press(ps, sel, op) ==
    Let(draw(ps, sel, Click(op, 0)), LAMBDA d : [panic |-> d.panic, ps |-> d.ps])

RECURSIVE presses(_, _, _, _)
\* k frames in a row, each with a click on `op`; a panic ends the run.
presses(ps, sel, op, k) ==
    IF k = 0 THEN [panic |-> NoPanic, ps |-> ps]
    ELSE Let(press(ps, sel, op), LAMBDA r :
             IF r.panic # NoPanic THEN r ELSE presses(r.ps, sel, op, k - 1))

\* The <<year, month>> of the cursors from which runs of arrow clicks are
\* followed: around a leap year and at both ends of the representable years.
ArrowStarts ==
    ({2023, 2024, MAX_YEAR} \X (1..12))
    \cup {<<MIN_YEAR, 1>>, <<MIN_YEAR, 12>>, <<MAX_YEAR - 1, 12>>}

\* >> twelve times, and >>> once, from the same valid cursor.
PressArrows ==
    /\ probe = NoProbe
    /\ \E ym \in ArrowStarts, day \in 1..31 :
          /\ from_ymd_opt(ym[1], ym[2], day) # None
          /\ \E c \in {[year |-> ym[1], month |-> ym[2], day |-> day, setup |-> TRUE]} :
                probe' = [fn |-> "arrows", arg |-> c,
                          ret |-> [add_months |-> presses(c, selection, ">>", 12),
                                   add_year   |-> presses(c, selection, ">>>", 1)]]
    /\ Frame

\* Two frames of draw, the first with a click on op1 and the second with a
\* click on op2: [panic, ps] of the second, or of the first when it panics.
press_then(ps, sel, op1, op2) ==
    Let(press(ps, sel, op1), LAMBDA r :
           IF r.panic # NoPanic THEN r ELSE press(r.ps, sel, op2))

\* > followed by <, and < followed by >, from one cursor.
PressDayArrows ==
    /\ probe = NoProbe
    /\ \E ym \in ArrowStarts, day \in 1..31 :
          /\ from_ymd_opt(ym[1], ym[2], day) # None
          /\ \E c \in {[year |-> ym[1], month |-> ym[2], day |-> day, setup |-> TRUE]} :
                probe' = [fn |-> "day_arrows", arg |-> c,
                          ret |-> [add_sub |-> press_then(c, selection, ">", "<"),
                                   sub_add |-> press_then(c, selection, "<", ">")]]
    /\ Frame

NextFn == ApplyMonthData \/ ApplyLastDayOfMonth \/ PressArrows \/ PressDayArrows

SpecFn == InitFn /\ [][NextFn]_vars

-----------------------------------------------------------------------------
(* SpecApp: two date picker buttons added to one Ui, each with its id_salt *)
(* and its caller's date.  egui keeps the persisted states in a map keyed  *)
(* by Id (and by the type of the value, so the states of the buttons and   *)
(* the states of the popups are two maps); an absent entry reads as the    *)
(* default, so the maps are total over the ids in use.  One step is one    *)
(* frame: ui of the first button, then ui of the second, on the same       *)
(* input.                                                                  *)

\* egui's Id::with(salt): the id of a child of id.  The hash is taken to be
\* free of collisions: an id is the path of the salts it was made from.
with(id, salt) == Append(id, salt)

\* The id of the Ui the buttons are added to.
UiId == <<"ui">>

\* ui.make_persistent_id(salt) on a Ui with the id ui_id
make_persistent_id(ui_id, salt) == with(ui_id, salt)

\* let id = ui.make_persistent_id(self.id_salt): the key of DatePickerButtonState
button_id(id_salt) == make_persistent_id(UiId, id_salt)

\* Area::new(ui.make_persistent_id(self.id_salt))
area_id(id_salt) == make_persistent_id(UiId, id_salt)

\* A key of the popup state that is made from the buttons' Ui.
popup_id_of_ui(id_salt) == make_persistent_id(UiId, "date_picker")

\* let id = ui.make_persistent_id("date_picker") in draw: the key of
\* DatePickerPopupState.  The Ui there is the child of the Area's Ui that
\* Frame::show makes, and the Area's Ui has the Area's id.
popup_id(id_salt) == make_persistent_id(with(area_id(id_salt), "child"), "date_picker")

Pickers == {1, 2}

\* The pairs of id_salt (Option<&str>) of the two buttons: distinct values.
SaltPairs == {<<None, Some("to")>>, <<Some("from"), Some("to")>>}

\* The dates the two cursors are explored on.
AppDates ==
    { [year |-> 2024, month |-> 2, day |-> 28],
      [year |-> 2024, month |-> 2, day |-> 29],
      [year |-> 2024, month |-> 3, day |-> 1] }

\* The persisted picker_visible and the persisted cursor of button q.
PickerVisible(a, q) == a.button_states[button_id(a.id_salt[q])].picker_visible
Cursor(a, q) == a.popup_states[popup_id(a.id_salt[q])]

\* DatePickerButton::ui of button q on the persisted data of a: [panic, app].
picker_frame(a, q, click, esc, out) ==
    Let(DatePickerButton_ui(PickerVisible(a, q), Cursor(a, q), a.selection[q],
                            click, esc, out),
        LAMBDA r :
           [panic |-> r.panic,
            app |-> [a EXCEPT
                       !.button_states[button_id(a.id_salt[q])] =
                            [picker_visible |-> r.picker_visible],
                       !.popup_states[popup_id(a.id_salt[q])] = r.popup_state,
                       !.selection[q] = r.selection,
                       !.changed[q] = r.changed]])

\* What button q sees of a frame whose click is on a widget of button p
\* (p = 0: on none of them): its own click, or a click elsewhere, which lies
\* outside its popup's area as does a click on its own button.
click_of(q, p, click) ==
    IF q = p \/ click.op = "idle" THEN click ELSE Click("elsewhere", 0)

out_of(q, p, click) ==
    IF q = p THEN click.op = "button" ELSE click.op # "idle"

\* One frame of the application: the first button's ui, then the second's.
app_frame(a, p, click, esc) ==
    Let(picker_frame(a, 1, click_of(1, p, click), esc, out_of(1, p, click)),
        LAMBDA r1 :
           IF r1.panic # NoPanic THEN r1
           ELSE picker_frame(r1.app, 2, click_of(2, p, click), esc,
                             out_of(2, p, click)))

AppExplored(a) ==
    \A q \in Pickers :
       Cursor(a, q).setup =>
          [year |-> Cursor(a, q).year, month |-> Cursor(a, q).month,
           day |-> Cursor(a, q).day] \in AppDates

AppFrame(p, click, esc) ==
    /\ ~panicked
    /\ \E r \in {app_frame(app, p, click, esc)} :
          /\ app' = r.app
          /\ panicked' = (r.panic # NoPanic)
          /\ panic_site' = r.panic
          /\ AppExplored(r.app)
    /\ ev' = [op |-> click.op, arg |-> click.arg, esc |-> esc,
              out |-> (click.op \in {"button", "elsewhere"}), picker |-> p]
    /\ UNCHANGED <<selection, picker_visible, popup_state, changed, probe>>

InitApp ==
    /\ selection = [year |-> 2024, month |-> 2, day |-> 29]
    /\ picker_visible = FALSE
    /\ popup_state = DefaultPopupState
    /\ panicked = FALSE
    /\ panic_site = NoPanic
    /\ ev = [op |-> "init", arg |-> 0, esc |-> FALSE, out |-> FALSE, picker |-> 0]
    /\ changed = FALSE
    /\ probe = NoProbe
    /\ \E salts \in SaltPairs :
          app = [id_salt |-> salts,
                 selection |-> <<[year |-> 2024, month |-> 2, day |-> 29],
                                 [year |-> 2024, month |-> 3, day |-> 1]>>,
                 button_states |->
                     [id \in {button_id(salts[q]) : q \in Pickers} |->
                         [picker_visible |-> FALSE]],
                 popup_states |->
                     [id \in {popup_id(salts[q]) : q \in Pickers} |->
                         DefaultPopupState],
                 changed |-> <<FALSE, FALSE>>]

AppIdle == \E esc \in BOOLEAN : AppFrame(0, Click("idle", 0), esc)

AppClickElsewhere == \E esc \in BOOLEAN : AppFrame(0, Click("elsewhere", 0), esc)

AppClickButton == \E p \in Pickers, esc \in BOOLEAN : AppFrame(p, Click("button", 0), esc)

\* The widgets of a popup can be clicked when the popup was shown.
AppPopupClick(p, op) ==
    /\ PickerVisible(app, p)
    /\ \E esc \in BOOLEAN : AppFrame(p, Click(op, 0), esc)

AppArrow == \E p \in Pickers, op \in {"<", ">"} : AppPopupClick(p, op)

AppCancel == \E p \in Pickers : AppPopupClick(p, "Cancel")

AppSave == \E p \in Pickers : AppPopupClick(p, "Save")

NextApp ==
    \/ AppIdle
    \/ AppClickElsewhere
    \/ AppClickButton
    \/ AppArrow
    \/ AppCancel
    \/ AppSave

SpecApp == InitApp /\ [][NextApp]_vars

-----------------------------------------------------------------------------
(* The calendar the claims are stated against, written from the Gregorian  *)
(* rules and not from the code.                                            *)

GregorianLeap(y) == IF y % 100 = 0 THEN y % 400 = 0 ELSE y % 4 = 0

GregorianLastDay(y, m) ==
    IF m = 2 THEN (IF GregorianLeap(y) THEN 29 ELSE 28)
    ELSE IF m \in {4, 6, 9, 11} THEN 30
    ELSE 31

Date(y, m, d) == [year |-> y, month |-> m, day |-> d]

\* The date of a cursor.
DateOf(c) == Date(c.year, c.month, c.day)

NextDay(d) ==
    IF d.day < GregorianLastDay(d.year, d.month) THEN Date(d.year, d.month, d.day + 1)
    ELSE IF d.month < 12 THEN Date(d.year, d.month + 1, 1)
    ELSE Date(d.year + 1, 1, 1)

PrevDay(d) ==
    IF d.day > 1 THEN Date(d.year, d.month, d.day - 1)
    ELSE IF d.month > 1 THEN Date(d.year, d.month - 1, GregorianLastDay(d.year, d.month - 1))
    ELSE Date(d.year - 1, 12, 31)

ValidCursor(c) ==
    /\ c.month \in 1..12
    /\ c.day >= 1
    /\ c.day <= GregorianLastDay(c.year, c.month)

\* The last frame ran the handler of the widget `op` to its end.
Handled(op) == ev.op = op /\ ~panicked

\* This step is a frame that reached the handler of the widget `op`: the click
\* was made and month_data and month_name returned before it.
Reaches(op) == ev'.op = op /\ panic_site' \notin {"month_data", "month_name"}

CursorOps == {"<<<", "<<", "<", ">", ">>", ">>>", "year", "month", "day", "cell"}

-----------------------------------------------------------------------------
(* Claims on the frames (Spec).                                            *)

\* C1: once the cursor was set up from the selection, after every frame the
\* persisted cursor has its month in 1..12 and its day in 1..last day of that
\* month, and NaiveDate::from_ymd_opt accepts it.
C1_CursorValid ==
    popup_state # DefaultPopupState =>
        /\ ValidCursor(popup_state)
        /\ from_ymd_opt(popup_state.year, popup_state.month, popup_state.day) # None

\* A cursor operation clamped the day: <<< has moved February 29 to 2023.
C1_Witness ==
    /\ Handled("<<<")
    /\ popup_state.setup
    /\ DateOf(popup_state) = Date(2023, 2, 28)
    /\ selection = Date(2024, 2, 29)

\* C2: a frame changes the selection only when Save was clicked in it; arrows,
\* combo choices, cell clicks, Cancel, Escape, clicks elsewhere and the click
\* on the button leave it as it was.
C2_OnlySaveChangesSelection ==
    [][selection' # selection => ev'.op = "Save"]_vars

\* The cursor was moved and the popup closed by Cancel, by Escape or by a
\* click elsewhere, and the selection is still the initial one.
C2_Witness ==
    /\ ev.op \in {"Cancel", "idle", "elsewhere"} \cup CursorOps
    /\ ~picker_visible
    /\ ~panicked
    /\ popup_state # DefaultPopupState
    /\ DateOf(popup_state) = Date(2025, 2, 28)
    /\ selection = Date(2024, 2, 29)

\* C3: a frame in which Save is clicked does not panic, and it leaves in the
\* selection the date of the cursor of that frame (the persisted cursor, or
\* the selection itself when the cursor was not set up).
C3_SaveCommitsCursor ==
    [][Reaches("Save") =>
          /\ ~panicked'
          /\ selection' = DateOf(setup_cursor(popup_state, selection))
          /\ selection' = DateOf(popup_state')
          /\ changed']_vars

\* Save has stored a cursor that navigation had moved away from the selection.
C3_Witness ==
    /\ Handled("Save")
    /\ changed
    /\ selection = Date(2023, 2, 28)
    /\ DateOf(popup_state) = selection

\* C8: >> moves the cursor (y, m, d) to (y, m+1, min(d, last day of m+1)), from
\* December to (y+1, 1, d); << moves it to (y, m-1, min(d, last day of m-1)),
\* from January to (y-1, 12, d); neither panics; (2024,1,31) goes to
\* (2024,2,29) under >>.
C8_MonthArrows ==
    [][/\ Reaches(">>") =>
            /\ ~panicked'
            /\ DateOf(popup_state') =
                  IF popup_state.month < 12
                  THEN Date(popup_state.year, popup_state.month + 1,
                            Min(popup_state.day,
                                GregorianLastDay(popup_state.year, popup_state.month + 1)))
                  ELSE Date(popup_state.year + 1, 1, popup_state.day)
            /\ DateOf(popup_state) = Date(2024, 1, 31)
                  => DateOf(popup_state') = Date(2024, 2, 29)
       /\ Reaches("<<") =>
            /\ ~panicked'
            /\ DateOf(popup_state') =
                  IF popup_state.month > 1
                  THEN Date(popup_state.year, popup_state.month - 1,
                            Min(popup_state.day,
                                GregorianLastDay(popup_state.year, popup_state.month - 1)))
                  ELSE Date(popup_state.year - 1, 12, popup_state.day)]_vars

\* >> has clamped the day to February 29, 2024.
C8_Witness ==
    /\ Handled(">>")
    /\ popup_state.setup
    /\ picker_visible
    /\ DateOf(popup_state) = Date(2024, 2, 29)
    /\ selection = Date(2023, 12, 31)

\* C9: > moves the cursor to the next calendar day and < to the previous one,
\* across the ends of months and years; neither panics; (2023,12,31) goes to
\* (2024,1,1) under >.
C9_DayArrows ==
    [][/\ Reaches(">") =>
            /\ ~panicked'
            /\ DateOf(popup_state') = NextDay(DateOf(popup_state))
            /\ DateOf(popup_state) = Date(2023, 12, 31)
                  => DateOf(popup_state') = Date(2024, 1, 1)
       /\ Reaches("<") =>
            /\ ~panicked'
            /\ DateOf(popup_state') = PrevDay(DateOf(popup_state))]_vars

\* > has moved the cursor over the end of the year 2023.
C9_Witness ==
    /\ Handled(">")
    /\ popup_state.setup
    /\ picker_visible
    /\ DateOf(popup_state) = Date(2024, 1, 1)
    /\ selection = Date(2023, 12, 31)

\* C10: when >>> or <<< returns, the year is one more or one less, the month
\* is the same and the day is min(day, last day of the month in the new
\* year); the day differs only for February 29, which becomes February 28 of
\* a year that is no leap year.
C10_YearArrows ==
    [][\A op \in {">>>", "<<<"} :
          (Reaches(op) /\ ~panicked') =>
             LET year == popup_state.year + (IF op = ">>>" THEN 1 ELSE -1)
             IN /\ DateOf(popup_state') =
                      Date(year, popup_state.month,
                           Min(popup_state.day, GregorianLastDay(year, popup_state.month)))
                /\ popup_state'.day # popup_state.day =>
                      /\ popup_state.month = 2 /\ popup_state.day = 29
                      /\ popup_state'.day = 28
                      /\ ~GregorianLeap(year)]_vars

\* >>> has moved February 29, 2024 to February 28, 2025.
C10_Witness ==
    /\ Handled(">>>")
    /\ popup_state.setup
    /\ picker_visible
    /\ DateOf(popup_state) = Date(2025, 2, 28)
    /\ selection = Date(2024, 2, 29)

-----------------------------------------------------------------------------
(* Claims on month_data and last_day_of_month (SpecFn).  They speak of the *)
(* value returned: for an input on which the function panics there is no   *)
(* value.                                                                  *)

\* month_data was applied and returned probe.ret.weeks.
Returned == probe.fn = "month_data" /\ ~probe.ret.panic /\ probe.ret.done

RECURSIVE FlatDays(_)
\* The days of the weeks, in order.
FlatDays(weeks) ==
    IF weeks = <<>> THEN <<>> ELSE weeks[1].days \o FlatDays(Tail(weeks))

\* The days of the target month.
MonthDays(c) == {Date(c.year, c.month, d) : d \in 1..GregorianLastDay(c.year, c.month)}

\* C4: the weeks month_data returns are not empty, every week has 7 days, the
\* first is a Monday and the last a Sunday, and each day of the grid is the
\* day after the one before it, within a week and from week to week.
C4_WeeksWellFormed ==
    Returned =>
        LET weeks == probe.ret.weeks
            days  == FlatDays(weeks)
        IN /\ Len(weeks) >= 1
           /\ \A w \in DOMAIN weeks :
                 /\ Len(weeks[w].days) = 7
                 /\ weekday(weeks[w].days[1]) = Mon
                 /\ weekday(weeks[w].days[7]) = Sun
           /\ \A i \in 1..(Len(days) - 1) : days[i + 1] = NextDay(days[i])

\* month_data returned six weeks: December 2024 begins on a Sunday.
C4_Witness ==
    /\ Returned
    /\ probe.arg.year = 2024 /\ probe.arg.month = 12
    /\ Len(probe.ret.weeks) = 6
    /\ Len(FlatDays(probe.ret.weeks)) = 42

\* C5: every day of the target month is among the days of the weeks returned,
\* at exactly one place.
C5_MonthCoveredOnce ==
    Returned =>
        LET days == FlatDays(probe.ret.weeks)
        IN \A d \in MonthDays(probe.arg) :
              Cardinality({i \in DOMAIN days : days[i] = d}) = 1

\* month_data returned the grid of a February with 29 days that ends inside a
\* week (2024-02-29 is a Thursday).
C5_Witness ==
    /\ Returned
    /\ probe.arg.year = 2024 /\ probe.arg.month = 2
    /\ \E i \in DOMAIN FlatDays(probe.ret.weeks) :
          FlatDays(probe.ret.weeks)[i] = Date(2024, 2, 29)

\* C6: the grid begins with the Monday on or before the 1st and ends with the
\* Sunday on or after the last day of the target month: the 1st is in the
\* first week, the last day in the last week, every week has a day of the
\* target month; the grid of (2024, 2) runs from 2024-01-29 to 2024-03-03.
C6_GridTight ==
    Returned =>
        LET weeks == probe.ret.weeks
            c     == probe.arg
            first == Date(c.year, c.month, 1)
            last  == Date(c.year, c.month, GregorianLastDay(c.year, c.month))
            Has(w, d) == \E i \in DOMAIN weeks[w].days : weeks[w].days[i] = d
        IN /\ Len(weeks) >= 1
           /\ weekday(weeks[1].days[1]) = Mon
           /\ Has(1, first)
           /\ weekday(weeks[Len(weeks)].days[Len(weeks[Len(weeks)].days)]) = Sun
           /\ Has(Len(weeks), last)
           /\ \A w \in DOMAIN weeks : \E d \in MonthDays(c) : Has(w, d)
           /\ (c.year = 2024 /\ c.month = 2) =>
                 /\ weeks[1].days[1] = Date(2024, 1, 29)
                 /\ weeks[Len(weeks)].days[7] = Date(2024, 3, 3)

\* month_data returned the grid of (2024, 2), in five weeks.
C6_Witness ==
    /\ Returned
    /\ probe.arg.year = 2024 /\ probe.arg.month = 2
    /\ Len(probe.ret.weeks) = 5

\* C7: when last_day_of_month returns, its value is that of the Gregorian
\* table: 31, 30, and for February 29 in a leap year and 28 otherwise.
C7_LastDayOfMonth ==
    (probe.fn = "last_day_of_month" /\ probe.ret # None) =>
        probe.ret[1] = GregorianLastDay(probe.arg.year, probe.arg.month)

\* last_day_of_month returned 28 for February 1900, which is no leap year.
C7_Witness ==
    /\ probe.fn = "last_day_of_month"
    /\ probe.arg.year = 1900 /\ probe.arg.month = 2
    /\ probe.ret = Some(28)

-----------------------------------------------------------------------------
(* Claims on runs of arrow clicks (SpecFn).                                *)

\* C11: from a valid cursor with day <= 28, twelve frames with a click on >>
\* and one frame with a click on >>> end alike: when one of the two runs
\* returns, the other returns too, with the same cursor (year+1, month, day).
C11_TwelveMonthsIsOneYear ==
    (probe.fn = "arrows" /\ probe.arg.day <= 28) =>
        LET months == probe.ret.add_months
            year   == probe.ret.add_year
        IN (months.panic = NoPanic \/ year.panic = NoPanic) =>
              /\ months.panic = NoPanic
              /\ year.panic = NoPanic
              /\ months.ps = year.ps
              /\ DateOf(year.ps) =
                    Date(probe.arg.year + 1, probe.arg.month, probe.arg.day)

\* Twelve clicks on >> have carried February 28, 2023 over the end of the
\* year to February 28, 2024.
C11_Witness ==
    /\ probe.fn = "arrows"
    /\ DateOf(probe.arg) = Date(2023, 2, 28)
    /\ probe.ret.add_months.panic = NoPanic
    /\ DateOf(probe.ret.add_months.ps) = Date(2024, 2, 28)
    /\ probe.ret.add_year.ps = probe.ret.add_months.ps

-----------------------------------------------------------------------------
(* Claims on the week numbers (SpecFn).                                    *)

RECURSIVE DaysBeforeMonth(_, _)
\* The days of the year y before its month m.
DaysBeforeMonth(y, m) ==
    IF m = 1 THEN 0 ELSE DaysBeforeMonth(y, m - 1) + GregorianLastDay(y, m - 1)

\* ISO 8601: a week runs from Monday to Sunday and belongs to the year of
\* its Thursday; it is week n of that year when its Thursday is the n-th
\* Thursday of the year.
IsoWeekOfThursday(thursday) ==
    (DaysBeforeMonth(thursday.year, thursday.month) + thursday.day - 1) \div 7 + 1

\* C12: every week month_data returns runs from a Monday over seven days and
\* carries the ISO 8601 number of that week, a number in 1..53, which is the
\* week number chrono gives for each of its seven days; the weeks of (2024, 2)
\* are numbered 5, 6, 7, 8, 9.
C12_WeekNumbers ==
    Returned =>
        LET weeks == probe.ret.weeks
        IN /\ \A w \in DOMAIN weeks :
                 /\ weeks[w].number \in 1..53
                 /\ Len(weeks[w].days) = 7
                 /\ weekday(weeks[w].days[1]) = Mon
                 /\ weeks[w].number = IsoWeekOfThursday(weeks[w].days[4])
                 /\ \A i \in 1..7 : iso_week(weeks[w].days[i]) = weeks[w].number
           /\ (probe.arg.year = 2024 /\ probe.arg.month = 2) =>
                 [w \in DOMAIN weeks |-> weeks[w].number] = <<5, 6, 7, 8, 9>>

\* The grid of December 2024 ends with week 1 of 2025, after week 52.
C12_Witness ==
    /\ Returned
    /\ probe.arg.year = 2024 /\ probe.arg.month = 12
    /\ Len(probe.ret.weeks) = 6
    /\ probe.ret.weeks[5].number = 52
    /\ probe.ret.weeks[6].number = 1

-----------------------------------------------------------------------------
(* Claims on the frames, continued (Spec).                                 *)

\* C13: no run of frames from a valid selection makes an expect, an unwrap or
\* the panic! of month_name fail.
C13_NoPanic == ~panicked

\* The popup was opened on a selection in the last representable year and a
\* click on >>> stopped the process in last_day_of_month.
C13_Witness ==
    /\ panicked
    /\ panic_site = "last_day_of_month"
    /\ ev.op = ">>>"
    /\ popup_state.year = MAX_YEAR

-----------------------------------------------------------------------------
(* Claims on the loops of month_data (SpecFn).                             *)

\* C14: for every (year, month) whose first day is a representable date, both
\* loops of month_data end and the function returns 4 to 6 weeks, after at
\* most 6 iterations of the first loop and at most 42 of the second.
C14_LoopsTerminate ==
    (/\ probe.fn = "month_data"
     /\ probe.arg.year >= MIN_YEAR /\ probe.arg.year <= MAX_YEAR) =>
        /\ Returned
        /\ Len(probe.ret.weeks) >= 4
        /\ Len(probe.ret.weeks) <= 6
        /\ probe.ret.back <= 6
        /\ probe.ret.fwd <= 42

\* month_data(MAX_YEAR, 12): the 1st of December is a date, the first loop
\* ended, and the second loop panicked on the day after December 31.
C14_Witness ==
    /\ probe.fn = "month_data"
    /\ probe.arg.year = MAX_YEAR /\ probe.arg.month = 12
    /\ from_ymd_opt(MAX_YEAR, 12, 1) # None
    /\ probe.ret.panic
    /\ ~probe.ret.done
    /\ probe.ret.back <= 6

\* C15: a choice Y in the year combo box moves the cursor (y, m, d) to
\* (Y, m, min(d, last day of m in Y)); a choice M in the month combo box moves
\* it to (y, M, min(d, last day of M in y)); the day combo box lists the days
\* 1..last day of m in y, and a choice D moves the cursor to (y, m, D).
C15_ComboBoxes ==
    [][/\ Reaches("year") =>
            /\ ~panicked'
            /\ DateOf(popup_state') =
                  Date(ev'.arg, popup_state.month,
                       Min(popup_state.day,
                           GregorianLastDay(ev'.arg, popup_state.month)))
       /\ Reaches("month") =>
            /\ ~panicked'
            /\ DateOf(popup_state') =
                  Date(popup_state.year, ev'.arg,
                       Min(popup_state.day,
                           GregorianLastDay(popup_state.year, ev'.arg)))
       /\ Reaches("day") =>
            /\ ~panicked'
            /\ day_entries(popup_state) =
                  1..GregorianLastDay(popup_state.year, popup_state.month)
            /\ ev'.arg \in day_entries(popup_state)
            /\ DateOf(popup_state') = Date(popup_state.year, popup_state.month, ev'.arg)]_vars

\* The year combo box has moved a cursor on February 29, 2024 to 2023 and
\* clamped its day.
C15_Witness ==
    /\ Handled("year")
    /\ ev.arg = 2023
    /\ popup_state.setup
    /\ DateOf(popup_state) = Date(2023, 2, 28)
    /\ selection = Date(2024, 2, 29)

\* C16: a click on a cell of the calendar grid sets the year, the month and
\* the day of the cursor to the date of the cell, for a cell of the shown
\* month and for a leading or trailing day of a neighbouring month alike; the
\* click leaves the selection as it was, and the popup stays as visible as it
\* was unless Escape is pressed in the same frame.
C16_CellClick ==
    [][Reaches("cell") =>
          /\ ~panicked'
          /\ DateOf(popup_state') = ev'.arg
          /\ popup_state'.setup
          /\ selection' = selection
          /\ ~ev'.esc => picker_visible' = picker_visible]_vars

\* The popup opened on January 1, 2025 and the leading cell December 31, 2024
\* of its grid was clicked.
C16_Witness ==
    /\ Handled("cell")
    /\ ev.arg = Date(2024, 12, 31)
    /\ ~ev.esc
    /\ DateOf(popup_state) = Date(2024, 12, 31)
    /\ selection = Date(2025, 1, 1)
    /\ picker_visible

\* C17: draw returns true in exactly the frames in which Save is pressed, and
\* the response of the button is marked changed in exactly those frames.
C17_ChangedIffSaved ==
    [][changed' <=> (ev'.op = "Save" /\ ~panicked')]_vars

\* Save was pressed after the cursor moved from February 29 to March 1, 2024,
\* and the frame marked the response changed.
C17_Witness ==
    /\ changed
    /\ Handled("Save")
    /\ selection = Date(2024, 3, 1)
    /\ ~picker_visible

\* C19: picker_visible becomes true only in a frame with a click on the
\* button, becomes false only in a frame with Save, Cancel, Escape or a click
\* outside the popup's area, and is left as it was by every frame without
\* Escape whose click is an arrow, an entry of a combo box or a cell of the
\* grid, and by every frame without input.
C19_VisibilityEvents ==
    [][/\ (~picker_visible /\ picker_visible') => ev'.op = "button"
       /\ (picker_visible /\ ~picker_visible') =>
             \/ ev'.op \in {"Save", "Cancel"}
             \/ ev'.esc
             \/ ev'.out
       /\ (ev'.op \in CursorOps \cup {"idle"} /\ ~ev'.esc) =>
             picker_visible' = picker_visible]_vars

\* An entry of the year combo box was chosen in a frame without Escape, the
\* cursor took the year, and the frame closed the popup.
C19_Witness ==
    /\ Handled("year")
    /\ ~ev.esc
    /\ ev.out
    /\ popup_state.setup
    /\ popup_state.year = ev.arg
    /\ ~picker_visible

\* C20: a frame in which the button is clicked ends with picker_visible =
\* TRUE, whether or not the popup was shown before, although the click lies
\* outside the popup's area, and also when Escape is pressed in that frame.
C20_ButtonClickOpens ==
    [][(ev'.op = "button" /\ ~panicked') => picker_visible']_vars

\* The button was clicked together with Escape while the cursor had moved
\* from February 29 to March 1, 2024, and the popup is shown.
C20_Witness ==
    /\ Handled("button")
    /\ ev.esc
    /\ ev.out
    /\ picker_visible
    /\ popup_state.setup
    /\ DateOf(popup_state) = Date(2024, 3, 1)
    /\ selection = Date(2024, 2, 29)

-----------------------------------------------------------------------------
(* Claims on two buttons in one Ui (SpecApp).                              *)

Other(p) == 3 - p

DistinctSalts == app.id_salt[1] # app.id_salt[2]

\* C18, as stated: with distinct id_salt values, a frame whose click is on a
\* widget of one button (the button, an arrow, Save or Cancel) leaves
\* picker_visible and the cursor of the other button as they were.
C18_OtherUnchanged ==
    [][\A p \in Pickers :
          (DistinctSalts /\ ev'.picker = p /\ ~panicked') =>
             /\ PickerVisible(app', Other(p)) = PickerVisible(app, Other(p))
             /\ Cursor(app', Other(p)) = Cursor(app, Other(p))]_vars

\* C18, amended: with distinct id_salt values, a frame whose click is on a
\* widget of one button leaves the cursor and the date of the other button as
\* they were and never shows the other's popup; the other's picker_visible is
\* false after the frame, so an open popup of the other button is closed by
\* the click, which lies outside its area.
C18_OtherKeepsCursor ==
    [][\A p \in Pickers :
          (DistinctSalts /\ ev'.picker = p /\ ~panicked') =>
             /\ Cursor(app', Other(p)) = Cursor(app, Other(p))
             /\ app'.selection[Other(p)] = app.selection[Other(p)]
             /\ ~PickerVisible(app', Other(p))]_vars

\* The first popup was opened on February 29, 2024 and moved to March 1; the
\* click on the second button then opened the second popup and closed the
\* first, whose cursor stayed.
C18_Witness ==
    /\ app # NoApp
    /\ DistinctSalts
    /\ ~panicked
    /\ ev.picker = 2 /\ ev.op = "button"
    /\ PickerVisible(app, 2)
    /\ ~PickerVisible(app, 1)
    /\ Cursor(app, 1) = [year |-> 2024, month |-> 3, day |-> 1, setup |-> TRUE]
    /\ app.selection[1] = [year |-> 2024, month |-> 2, day |-> 29]
    /\ Cursor(app, 2) = [year |-> 2024, month |-> 3, day |-> 1, setup |-> TRUE]

-----------------------------------------------------------------------------
(* Claims on closing and reopening the popup (Spec).                       *)

\* C21: a frame with Save or Cancel ends with the cursor's setup flag and
\* picker_visible both false; a hidden popup without setup stays so until the
\* button is clicked; and the frame that opens it then sets the cursor to the
\* caller's date of that frame, so what was navigated before a Cancel is gone.
C21_SaveCancelReset ==
    [][/\ ((Reaches("Save") \/ Reaches("Cancel")) /\ ~panicked') =>
             /\ ~popup_state'.setup
             /\ ~picker_visible'
       /\ (~picker_visible /\ ~popup_state.setup /\ ev'.op # "button") =>
             /\ ~picker_visible'
             /\ ~popup_state'.setup
       /\ (~picker_visible /\ ~popup_state.setup /\ ev'.op = "button" /\ ~panicked') =>
             /\ picker_visible'
             /\ popup_state'.setup
             /\ DateOf(popup_state') = selection'
             /\ selection' = selection]_vars

\* The cursor was moved from February 29 to March 1, 2024 and saved, and the
\* popup was opened again: its cursor is the saved date.
C21_Witness ==
    /\ Handled("button")
    /\ ~ev.esc
    /\ picker_visible
    /\ popup_state.setup
    /\ selection = Date(2024, 3, 1)
    /\ DateOf(popup_state) = Date(2024, 3, 1)

\* C22: whenever a hidden popup is opened, however it was dismissed before
\* (Save, Cancel, Escape or a click outside its area), the cursor of its
\* first frame is the caller's date.
C22_ReopenedCursorIsSelection ==
    [][(~picker_visible /\ ev'.op = "button" /\ ~panicked') =>
          DateOf(popup_state') = selection']_vars

\* The popup was opened on February 29, 2024, moved to March 1 and dismissed
\* with Escape: it is hidden, and the cursor is still set up on March 1.
C22_Witness ==
    /\ ~panicked
    /\ ev.op = "idle"
    /\ ev.esc
    /\ ~picker_visible
    /\ popup_state.setup
    /\ DateOf(popup_state) = Date(2024, 3, 1)
    /\ selection = Date(2024, 2, 29)

-----------------------------------------------------------------------------
(* Claims on > and < (SpecFn).                                             *)

\* C23: from every valid cursor, a click on > followed by a click on <
\* persists the cursor it started from, and so does a click on < followed by
\* a click on >, whenever both frames return.
C23_DayArrowsInverse ==
    probe.fn = "day_arrows" =>
       /\ probe.ret.add_sub.panic = NoPanic => probe.ret.add_sub.ps = probe.arg
       /\ probe.ret.sub_add.panic = NoPanic => probe.ret.sub_add.ps = probe.arg

\* Both runs returned to March 1, 2024: > and < within March, < and > across
\* February 29.
C23_Witness ==
    /\ probe.fn = "day_arrows"
    /\ probe.arg = [year |-> 2024, month |-> 3, day |-> 1, setup |-> TRUE]
    /\ probe.ret.add_sub = [panic |-> NoPanic, ps |-> probe.arg]
    /\ probe.ret.sub_add = [panic |-> NoPanic, ps |-> probe.arg]

====
